---- MODULE Spec2Model ----
(***************************************************************************)
(* Model of the API-key authentication and rate-limiting pipeline of       *)
(* geo-monitor: the credential store and usage ledger of src/database.py,  *)
(* the two HTTP middlewares of src/auth.py and the key check of the        *)
(* downstream handlers of src/main.py.                                     *)
(*                                                                         *)
(* Time is counted in days (the window of get_usage_stats is `days`).      *)
(* An optional value (Python None / a value) is a sequence of length 0 or  *)
(* 1.  An API key f"{prefix}-{suffix}" is the pair <<prefix, suffix>>; a   *)
(* missing or empty X-API-Key header is the empty sequence.                *)
(***************************************************************************)
EXTENDS Integers, Sequences, FiniteSets, TLC

\* ---------------------------------------------------------------- bounds
MaxUsers == 2
MaxKeys == 3
MaxLogs == 2
MaxTime == 2
MaxRequests == 3
MaxSequence == 4

\* ------------------------------------------------------ program constants
DefaultFree == 10
DefaultStarter == 500
DefaultPro == 5000
DefaultEnterprise == 999999
FallbackLimit == 10

None == << >>
Some(x) == << x >>

Max(a, b) == IF a >= b THEN a ELSE b

\* ------------------------------------------------------------ input sets
Slots == {1, 2}
Tiers == {"free", "starter", "pro", "enterprise"}
\* plan_tier is a free-form TEXT column: "gold" stands for any other string
PlanTierInputs == Tiers \cup {"gold"}
Emails == {"demo@example.com", "a@example.com"}
\* (user_id, plan_tier) arguments of issuance and api_key_id arguments of
\* log_usage: a seeded row and a later one
IssueInputs == {<< 1, "pro" >>, << 2, "gold" >>}
KeyIdInputs == {1, 2}
DEMO_API_KEY == << "demo", "key-2024" >>
\* what secrets.token_hex can return, cut down to two keys
GeneratedKeys == {<< "a1", "x" >>, << "a1", "y" >>}
HeaderValues == {None, DEMO_API_KEY, << "a1", "x" >>}
\* URL paths, as their segments: /api/locations and /health
Paths == {<< "api", "locations" >>, << "health" >>}
\* monitor ids, owning api_key_id arguments and keyword lists of the monitor
\* functions; every monitor is saved with the one location list
MonitorIds == {"m1", "m2"}
MonitorKeyIds == {1, 2}
KeywordLists == {<< "seo" >>, << "seo", "maps" >>}
MonitorLocations == << "Paris" >>
\* the calls of process_gumroad_purchase that can be running at once
PurchaseSlots == {1, 2}
\* product names of a purchase, each as the set of the tier keywords that
\* occur in its lower-cased text (none for a missing or unrelated name)
ProductNames ==
    { {}, {"starter"}, {"pro"}, {"enterprise"}, {"free"},
      {"enterprise", "pro"}, {"free", "starter"} }
\* the product names that purchases are made with: one with no keyword and
\* one with two keywords
PurchasedProducts == { {}, {"enterprise", "pro"} }
\* RATE_LIMIT_* of the environment: the defaults, and a small setting
RateLimitEnvs ==
    { [free |-> DefaultFree, starter |-> DefaultStarter, pro |-> DefaultPro,
       enterprise |-> DefaultEnterprise],
      [free |-> 2, starter |-> 3, pro |-> 3, enterprise |-> 4] }

VARIABLES users, api_keys, usage_logs, now, rate_limits, req, served, issued,
          purchase, monitors, reinit, purchasing, sqlite_sequence

vars == << users, api_keys, usage_logs, now, rate_limits, req, served, issued,
          purchase, monitors, reinit, purchasing, sqlite_sequence >>

\* ------------------------------------------------------- credential store

\* hashlib.sha256(...).hexdigest(): one-way, and injective on the keys used
KeyHash(api_key) == << "sha256", api_key[1], api_key[2] >>

\* the row fetched by verify_api_key: api_keys JOIN users
\* WHERE key_hash = ? AND ak.is_active = 1 (key_hash is UNIQUE: at most one)
VerifyRows(api_key) ==
    { i \in DOMAIN api_keys :
        /\ api_keys[i].key_hash = KeyHash(api_key)
        /\ api_keys[i].is_active
        /\ api_keys[i].user_id \in DOMAIN users }

\* the rows that pass `if not row or not row["user_active"]: return None`
ActiveRows(api_key) ==
    { i \in VerifyRows(api_key) : users[api_keys[i].user_id].is_active }

\* verify_api_key with the `return {...}` of lines 225-229 at its end: the
\* key info of the matching row of an active user
VerifyApiKeyRepaired(api_key) ==
    IF ActiveRows(api_key) = {} THEN None
    ELSE LET i == CHOOSE j \in ActiveRows(api_key) : TRUE
         IN  Some([api_key_id |-> i, user_id |-> api_keys[i].user_id,
                   plan_tier |-> api_keys[i].plan_tier])

\* verify_api_key as written: the function body ends with the `return None`
\* of line 206, so a matching row of an active user falls off the end of the
\* function and the result is None as well (the `return {...}` that builds
\* the key info is at lines 225-229, inside get_user_id_by_email and after
\* that function's own return).
VerifyApiKey(api_key) ==
    IF ActiveRows(api_key) = {} THEN None ELSE None

\* ----------------------------------------------------------- usage ledger

\* SELECT COUNT(*) FROM usage_logs WHERE api_key_id = ? AND timestamp >= now - days
WindowCount(api_key_id, days) ==
    Cardinality({ i \in DOMAIN usage_logs :
                    /\ usage_logs[i].api_key_id = api_key_id
                    /\ usage_logs[i].timestamp >= now - days })

\* rate_limits.get(plan_tier, 10)
RateLimitFor(plan_tier) ==
    IF plan_tier \in DOMAIN rate_limits THEN rate_limits[plan_tier]
    ELSE FallbackLimit

\* get_usage_stats without the floor: remaining = limit - total_calls
QuotaStatsNoFloor(plan_tier, total_calls, days) ==
    LET limit == RateLimitFor(plan_tier)
    IN  [total_calls |-> total_calls, plan_tier |-> plan_tier,
         rate_limit |-> limit, remaining |-> limit - total_calls,
         period_days |-> days]

\* the last lines of get_usage_stats: limit, remaining and the returned dict
QuotaStats(plan_tier, total_calls, days) ==
    LET limit == RateLimitFor(plan_tier)
    IN  [total_calls |-> total_calls, plan_tier |-> plan_tier,
         rate_limit |-> limit, remaining |-> Max(0, limit - total_calls),
         period_days |-> days]

GetUsageStats(api_key_id, days) ==
    LET total_calls == WindowCount(api_key_id, days)
        plan_tier == IF api_key_id \in DOMAIN api_keys
                     THEN api_keys[api_key_id].plan_tier ELSE "free"
    IN  QuotaStats(plan_tier, total_calls, days)

\* rate_limit_middleware rejects `if stats["remaining"] <= 0`
Admitted(stats) == ~(stats.remaining <= 0)

\* the row INSERTed by log_usage; timestamp DEFAULT CURRENT_TIMESTAMP.  The
\* measured latency (response_time_ms) is wall-clock noise below the model's
\* clock resolution and is not kept.
UsageRow(api_key_id, endpoint, status_code) ==
    [api_key_id |-> api_key_id, endpoint |-> endpoint, timestamp |-> now,
     status_code |-> status_code]

\* ------------------------------------------------------------- requests

\* request.url.path.startswith("/api/")
StartsWithApi(path) == Len(path) >= 2 /\ path[1] = "api"

\* `if not api_key`: the header is missing or empty
HasKey(api_key) == api_key # None

\* the decision of rate_limit_middleware: forward unmetered, reject, or admit
RateLimitDecision(path, api_key) ==
    IF ~StartsWithApi(path) THEN [outcome |-> "forward", stats |-> None]
    ELSE IF path = << "health" >> THEN [outcome |-> "forward", stats |-> None]
    ELSE IF ~HasKey(api_key) THEN [outcome |-> "forward", stats |-> None]
    ELSE LET key_info == VerifyApiKey(api_key) IN
         IF key_info = None THEN [outcome |-> "forward", stats |-> None]
         ELSE LET stats == GetUsageStats(key_info[1].api_key_id, 1) IN
              IF ~Admitted(stats)
              THEN [outcome |-> "reject", stats |-> Some(stats)]
              ELSE [outcome |-> "admit", stats |-> Some(stats)]

\* the JSONResponse of a rejection
RejectBody(stats) ==
    [error |-> "Rate limit exceeded", plan |-> stats.plan_tier,
     limit |-> stats.rate_limit, used |-> stats.total_calls,
     resets_in |-> "24 hours"]

RejectHeaders(stats) ==
    [limit |-> stats.rate_limit, remaining |-> 0, reset |-> 86400]

\* the X-RateLimit-* headers put on the response of an admitted request
AdmitHeaders(stats) ==
    [limit |-> stats.rate_limit, remaining |-> stats.remaining, reset |-> 86400]

\* the downstream handler: the routes of main.py are all under /api/ (and /)
\* and depend on main.verify_api_key, which compares with DEMO_API_KEY
HandlerStatus(path, api_key) ==
    IF ~StartsWithApi(path) THEN 404
    ELSE IF api_key # DEMO_API_KEY THEN 401
    ELSE 200

\* the body FastAPI sends for the HTTPException of main.verify_api_key
UnauthorizedBody == [detail |-> "Invalid or missing API key"]

\* the error body of the handler's response, if it is a 401
HandlerBody(status_code) ==
    IF status_code = 401 THEN Some(UnauthorizedBody) ELSE None

\* a logging middleware that logs under the matching key row, whatever the
\* state of the owning account
LogKeyInfoAnyAccount(api_key) ==
    IF HasKey(api_key) /\ VerifyRows(api_key) # {}
    THEN Some([api_key_id |-> CHOOSE i \in VerifyRows(api_key) : TRUE])
    ELSE None

\* the key info log_request_middleware logs under, if any
LogKeyInfo(api_key) ==
    IF HasKey(api_key) THEN VerifyApiKey(api_key) ELSE None

\* call_next of log_request_middleware and of rate_limit_middleware: the
\* logging middleware is the outer one, it sees the 429 of the inner one
LogCallNext == "rate_limit"
RateLimitCallNext == "handler"

\* matched, seen: history of the request, not read by the code: whether the
\* key matched an active row of an active user when rate_limit_middleware
\* looked it up on a rate-limited path, and the window count of that row then.
\* writes, logged, record: the number of calls of log_usage made for the
\* request, the number of rows they have inserted and the last of them.
\* resolves: the number of calls of database.verify_api_key made for the
\* request.  raised: the call whose exception has left the middlewares ("" if none);
\* the server then answers 500 in place of the response computed so far.
IdleReq ==
    [pc |-> "idle", path |-> << >>, api_key |-> None, matched |-> FALSE,
     seen |-> 0, stats |-> None, handled |-> FALSE, status |-> 0, headers |-> None,
     body |-> None, writes |-> 0, logged |-> 0, record |-> None,
     resolves |-> 0, raised |-> ""]

\* an exception propagates out of a middleware: nothing of the response
\* computed so far is sent
Raise(request, call) ==
    [request EXCEPT !.pc = "done", !.status = 500, !.headers = None,
                    !.body = None, !.raised = call]

\* no call of create_api_key_for_user has ended yet
NotIssued == [raised |-> FALSE, full_key |-> None, attempts |-> 0]

\* no call of process_gumroad_purchase has ended yet
NoPurchase ==
    [raised |-> FALSE, success |-> FALSE, user_id |-> 0, email |-> "",
     api_key |-> None, plan_tier |-> "", product_name |-> {}]

\* the monitors table after init_monitors_db: no rows
NoMonitors == [i \in {} |-> 0]

Init ==
    /\ users = << [email |-> "demo@example.com", is_active |-> TRUE] >>
    /\ api_keys = 1 :> [user_id |-> 1, key_hash |-> KeyHash(DEMO_API_KEY),
                         key_prefix |-> "demo-", plan_tier |-> "free",
                         created_at |-> 0, is_active |-> TRUE]
    /\ sqlite_sequence = 1
    /\ usage_logs = << >>
    /\ now = 0
    /\ rate_limits \in RateLimitEnvs
    /\ req = [r \in Slots |-> IdleReq]
    /\ served = 0
    /\ issued = NotIssued
    /\ purchase = NoPurchase
    /\ monitors = NoMonitors
    /\ reinit = FALSE
    /\ purchasing = [c \in PurchaseSlots |-> None]

\* ------------------------------------------------- credential store ops

\* a row INSERTed into api_keys, id INTEGER PRIMARY KEY AUTOINCREMENT: its id
\* is one more than sqlite_sequence, the largest id the table has handed out
InsertApiKey(row) == (sqlite_sequence + 1 :> row) @@ api_keys

\* create_user: INSERT INTO users; the UNIQUE email makes a second insert of
\* the same address raise IntegrityError, which is caught (returns None)
CreateUser(email) ==
    /\ IF \E u \in DOMAIN users : users[u].email = email
       THEN UNCHANGED users
       ELSE users' = Append(users, [email |-> email, is_active |-> TRUE])
    /\ UNCHANGED << api_keys, usage_logs, now, rate_limits, req, served, issued,
                    purchase, monitors, reinit, purchasing, sqlite_sequence >>

\* issuance into a table whose key_hash column is not UNIQUE
CreateApiKeyForUserNoUnique(user_id, plan_tier, full_key) ==
    /\ api_keys' = InsertApiKey(
                    [user_id |-> user_id, key_hash |-> KeyHash(full_key),
                     key_prefix |-> full_key[1], plan_tier |-> plan_tier,
                     created_at |-> now, is_active |-> TRUE])
    /\ sqlite_sequence' = sqlite_sequence + 1
    /\ issued' = [raised |-> FALSE, full_key |-> Some(full_key), attempts |-> 1]
    /\ UNCHANGED << users, usage_logs, now, rate_limits, req, served, purchase,
                    monitors, reinit, purchasing >>

\* issuance that stores the key itself in the key_hash column
CreateApiKeyForUserPlain(user_id, plan_tier, full_key) ==
    /\ api_keys' = InsertApiKey(
                    [user_id |-> user_id, key_hash |-> full_key,
                     key_prefix |-> full_key[1], plan_tier |-> plan_tier,
                     created_at |-> now, is_active |-> TRUE])
    /\ sqlite_sequence' = sqlite_sequence + 1
    /\ issued' = [raised |-> FALSE, full_key |-> Some(full_key), attempts |-> 1]
    /\ UNCHANGED << users, usage_logs, now, rate_limits, req, served, purchase,
                    monitors, reinit, purchasing >>

\* generate_api_key + create_api_key_for_user: the INSERT fails on the UNIQUE
\* key_hash (IntegrityError, not caught here: the statement is undone and
\* the id counter stays); user_id is not checked (SQLite
\* does not enforce the FOREIGN KEY unless the pragma is set, and it is not).
\* issued is how the call ended: the key returned or the exception raised,
\* after `attempts` executions of generate_api_key and the INSERT
CreateApiKeyForUser(user_id, plan_tier, full_key) ==
    /\ IF \E i \in DOMAIN api_keys : api_keys[i].key_hash = KeyHash(full_key)
       THEN /\ UNCHANGED << api_keys, sqlite_sequence >>
            /\ issued' = [raised |-> TRUE, full_key |-> None, attempts |-> 1]
       ELSE /\ api_keys' = InsertApiKey(
                    [user_id |-> user_id, key_hash |-> KeyHash(full_key),
                     key_prefix |-> full_key[1], plan_tier |-> plan_tier,
                     created_at |-> now, is_active |-> TRUE])
            /\ sqlite_sequence' = sqlite_sequence + 1
            /\ issued' = [raised |-> FALSE, full_key |-> Some(full_key),
                          attempts |-> 1]
    /\ UNCHANGED << users, usage_logs, now, rate_limits, req, served, purchase,
                    monitors, reinit, purchasing >>

\* the row of credential i as list_api_keys_for_user selects it: key_hash
\* is not selected
ListedKey(i) ==
    [id |-> i, key_prefix |-> api_keys[i].key_prefix,
     plan_tier |-> api_keys[i].plan_tier,
     created_at |-> api_keys[i].created_at,
     is_active |-> api_keys[i].is_active]

\* list_api_keys_for_user: the rows of the user ORDER BY created_at DESC.
\* The order among rows created at the same time is not fixed by the query:
\* the lists the call may return, each with the rows of the user once and
\* no row before one created later
ListApiKeysForUser(user_id) ==
    LET ids == { i \in DOMAIN api_keys : api_keys[i].user_id = user_id }
        n == Cardinality(ids)
    IN  { [p \in 1..n |-> ListedKey(order[p])] :
            order \in { o \in [1..n -> ids] :
                          /\ \A p, q \in 1..n : p # q => o[p] # o[q]
                          /\ \A p, q \in 1..n :
                                p < q => api_keys[o[p]].created_at
                                            >= api_keys[o[q]].created_at } }

\* map_product_to_plan_tier: the first of starter, pro, enterprise, free that
\* occurs in the lower-cased product name, starter if none does
MapProductToPlanTier(product_name) ==
    IF "starter" \in product_name THEN "starter"
    ELSE IF "pro" \in product_name THEN "pro"
    ELSE IF "enterprise" \in product_name THEN "enterprise"
    ELSE IF "free" \in product_name THEN "free"
    ELSE "starter"

\* authenticate_user(email, None): None for an unknown or inactive user;
\* for an active one verify_password(None, password_hash) is reached, and
\* passlib raises on a secret that is not a string
AuthenticateUserNoPassword(email) ==
    IF \E u \in DOMAIN users : users[u].email = email /\ users[u].is_active
    THEN [raised |-> TRUE, user |-> None]
    ELSE [raised |-> FALSE, user |-> None]

\* process_gumroad_purchase up to the return of `await create_user`: the
\* tier is mapped, and create_user inserts and commits the account, or
\* returns None for an email that is stored (IntegrityError, caught there).
\* The call then holds email, product_name, plan_tier and user_id (0 for
\* None) while other calls run
ProcessGumroadPurchaseCreateUser(c, email, product_name) ==
    /\ purchasing[c] = None
    /\ \A d \in PurchaseSlots : d < c => purchasing[d] # None
    /\ LET exists == \E u \in DOMAIN users : users[u].email = email
       IN  /\ users' = IF exists THEN users
                       ELSE Append(users, [email |-> email, is_active |-> TRUE])
           /\ purchasing' =
                 [purchasing EXCEPT ![c] =
                    Some([email |-> email, product_name |-> product_name,
                          plan_tier |-> MapProductToPlanTier(product_name),
                          user_id |-> IF exists THEN 0 ELSE Len(users) + 1])]
    /\ UNCHANGED << api_keys, usage_logs, now, rate_limits, req, served, issued,
                    purchase, monitors, reinit, sqlite_sequence >>

\* process_gumroad_purchase from there to its end: for an email that was
\* stored, the authenticate_user call and the error result; for a new one,
\* create_api_key_for_user (its own INSERT and commit) and the success
\* result.  An exception of a callee is not caught
ProcessGumroadPurchaseReturn(c, full_key) ==
    /\ purchasing[c] # None
    /\ LET call == purchasing[c][1]
           failed == [raised |-> TRUE, success |-> FALSE, user_id |-> 0,
                      email |-> call.email, api_key |-> None, plan_tier |-> "",
                      product_name |-> {}]
       IN
       IF call.user_id = 0
       THEN /\ UNCHANGED << api_keys, issued, sqlite_sequence >>
            /\ purchase' = IF AuthenticateUserNoPassword(call.email).raised
                           THEN failed
                           ELSE [failed EXCEPT !.raised = FALSE]
       ELSE IF \E i \in DOMAIN api_keys :
                   api_keys[i].key_hash = KeyHash(full_key)
            THEN /\ UNCHANGED << api_keys, sqlite_sequence >>
                 /\ issued' = [raised |-> TRUE, full_key |-> None,
                               attempts |-> 1]
                 /\ purchase' = failed
            ELSE /\ api_keys' = InsertApiKey(
                         [user_id |-> call.user_id,
                          key_hash |-> KeyHash(full_key),
                          key_prefix |-> full_key[1],
                          plan_tier |-> call.plan_tier,
                          created_at |-> now, is_active |-> TRUE])
                 /\ sqlite_sequence' = sqlite_sequence + 1
                 /\ issued' = [raised |-> FALSE, full_key |-> Some(full_key),
                               attempts |-> 1]
                 /\ purchase' = [raised |-> FALSE, success |-> TRUE,
                                 user_id |-> call.user_id, email |-> call.email,
                                 api_key |-> Some(full_key),
                                 plan_tier |-> call.plan_tier,
                                 product_name |-> call.product_name]
    /\ purchasing' = [purchasing EXCEPT ![c] = None]
    /\ UNCHANGED << users, usage_logs, now, rate_limits, req, served, monitors,
                    reinit >>

\* a revoke that flips the active flag
RevokeToggling(credential_id) ==
    /\ credential_id \in DOMAIN api_keys
    /\ api_keys' = [api_keys EXCEPT ![credential_id].is_active =
                                        ~api_keys[credential_id].is_active]
    /\ UNCHANGED << users, usage_logs, now, rate_limits, req, served, issued,
                    purchase, monitors, reinit, purchasing, sqlite_sequence >>

\* revoke(credential_id) of the specification: no function of src/ clears
\* api_keys.is_active; the column and the `ak.is_active = 1` filter are there
Revoke(credential_id) ==
    /\ credential_id \in DOMAIN api_keys
    /\ api_keys' = [api_keys EXCEPT ![credential_id].is_active = FALSE]
    /\ UNCHANGED << users, usage_logs, now, rate_limits, req, served, issued,
                    purchase, monitors, reinit, purchasing, sqlite_sequence >>

\* the account's active flag is cleared by account management (external)
DeactivateUser(user_id) ==
    /\ user_id \in DOMAIN users
    /\ users' = [users EXCEPT ![user_id].is_active = FALSE]
    /\ UNCHANGED << api_keys, usage_logs, now, rate_limits, req, served, issued,
                    purchase, monitors, reinit, purchasing, sqlite_sequence >>

\* a log_usage that writes the row in place of the ledger's rows
LogUsageReplacing(api_key_id, endpoint, status_code) ==
    /\ usage_logs' = << UsageRow(api_key_id, endpoint, status_code) >>
    /\ UNCHANGED << users, api_keys, now, rate_limits, req, served, issued, purchase,
                    monitors, reinit, purchasing, sqlite_sequence >>

\* log_usage called directly (database module API)
LogUsage(api_key_id, endpoint, status_code) ==
    /\ usage_logs' = Append(usage_logs, UsageRow(api_key_id, endpoint, status_code))
    /\ UNCHANGED << users, api_keys, now, rate_limits, req, served, issued, purchase,
                    monitors, reinit, purchasing, sqlite_sequence >>

\* an init_database whose two INSERTs are INSERT OR REPLACE: the demo rows
\* are written again with their column defaults
InitDatabaseReplacing ==
    /\ users' = IF users = << >>
                THEN << [email |-> "demo@example.com", is_active |-> TRUE] >>
                ELSE [users EXCEPT ![1] = [email |-> "demo@example.com",
                                           is_active |-> TRUE]]
    /\ api_keys' =
          [i \in DOMAIN api_keys |->
              IF api_keys[i].key_hash = KeyHash(DEMO_API_KEY)
              THEN [user_id |-> 1, key_hash |-> KeyHash(DEMO_API_KEY),
                    key_prefix |-> "demo-", plan_tier |-> "free",
                    created_at |-> now, is_active |-> TRUE]
              ELSE api_keys[i]]
    /\ sqlite_sequence' = sqlite_sequence + 1
    /\ reinit' = TRUE
    /\ UNCHANGED << usage_logs, now, rate_limits, req, served, issued, purchase,
                    monitors, purchasing >>

\* init_database run on the store as it is: CREATE TABLE IF NOT EXISTS keeps
\* the tables; INSERT OR IGNORE adds the demo user unless a row has id 1 or
\* the demo email (email is UNIQUE), and the demo credential unless a row has
\* its key_hash (UNIQUE).  The users INSERT names its id and takes none from
\* the counter of users; the api_keys INSERT takes the next AUTOINCREMENT id
\* before the conflict is found, and the ignored conflict does not give it
\* back: the counter of api_keys goes up by one at every run, row or no row.
\* reinit (history, not read by the code): the function has been run again
\* after the run that made the store
InitDatabase ==
    /\ users' = IF \/ 1 \in DOMAIN users
                   \/ \E u \in DOMAIN users : users[u].email = "demo@example.com"
                THEN users
                ELSE Append(users, [email |-> "demo@example.com",
                                    is_active |-> TRUE])
    /\ api_keys' = IF \E i \in DOMAIN api_keys :
                         api_keys[i].key_hash = KeyHash(DEMO_API_KEY)
                   THEN api_keys
                   ELSE InsertApiKey(
                           [user_id |-> 1, key_hash |-> KeyHash(DEMO_API_KEY),
                            key_prefix |-> "demo-", plan_tier |-> "free",
                            created_at |-> now, is_active |-> TRUE])
    /\ sqlite_sequence' = sqlite_sequence + 1
    /\ reinit' = TRUE
    /\ UNCHANGED << usage_logs, now, rate_limits, req, served, issued, purchase,
                    monitors, purchasing >>

\* ------------------------------------------------------------- monitors

\* json.dumps of a list: the TEXT stored in the keywords and locations
\* columns, which no function of the module parses back
JsonDumps(list) == << "json", list >>

\* save_monitor: INSERT OR REPLACE on the PRIMARY KEY id: a row with the id
\* is deleted whoever owns it, and the new row gets the caller's api_key_id
\* and lists and the column defaults (created_at now, is_active 1)
SaveMonitor(monitor_id, api_key_id, keywords, locations) ==
    /\ monitors' =
          [i \in DOMAIN monitors \cup {monitor_id} |->
              IF i = monitor_id
              THEN [api_key_id |-> api_key_id,
                    keywords |-> JsonDumps(keywords),
                    locations |-> JsonDumps(locations),
                    created_at |-> now, is_active |-> TRUE]
              ELSE monitors[i]]
    /\ UNCHANGED << users, api_keys, usage_logs, now, rate_limits, req, served,
                    issued, purchase, reinit, purchasing, sqlite_sequence >>

\* get_monitors_for_api_key: SELECT * WHERE api_key_id = ? AND is_active = 1
\* (no ORDER BY: the rows as a set)
GetMonitorsForApiKey(api_key_id) ==
    { [id |-> i, api_key_id |-> monitors[i].api_key_id,
       keywords |-> monitors[i].keywords, locations |-> monitors[i].locations,
       created_at |-> monitors[i].created_at,
       is_active |-> monitors[i].is_active] :
      i \in { j \in DOMAIN monitors : /\ monitors[j].api_key_id = api_key_id
                                      /\ monitors[j].is_active } }

\* delete_monitor: UPDATE monitors SET is_active = 0
\* WHERE id = ? AND api_key_id = ?
DeleteMonitor(monitor_id, api_key_id) ==
    /\ monitors' = [i \in DOMAIN monitors |->
                      IF i = monitor_id /\ monitors[i].api_key_id = api_key_id
                      THEN [monitors[i] EXCEPT !.is_active = FALSE]
                      ELSE monitors[i]]
    /\ UNCHANGED << users, api_keys, usage_logs, now, rate_limits, req, served,
                    issued, purchase, reinit, purchasing, sqlite_sequence >>

\* ----------------------------------------------------------- the pipeline

\* log_request_middleware, lines 27-32: read the header, call_next
Arrive(r, path, api_key) ==
    /\ req[r].pc = "idle"
    /\ \A q \in Slots : q < r => req[q].pc # "idle"
    /\ served < MaxRequests
    /\ served' = served + 1
    /\ req' = [req EXCEPT ![r] = [IdleReq EXCEPT !.pc = LogCallNext,
                                     !.path = path, !.api_key = api_key]]
    /\ UNCHANGED << users, api_keys, usage_logs, now, rate_limits, issued, purchase,
                    monitors, reinit, purchasing, sqlite_sequence >>

\* rate_limit_middleware up to its call_next or its 429
RateLimit(r) ==
    /\ req[r].pc = "rate_limit"
    /\ LET d == RateLimitDecision(req[r].path, req[r].api_key)
           m == /\ StartsWithApi(req[r].path)
                /\ req[r].path # << "health" >>
                /\ HasKey(req[r].api_key)
                /\ ActiveRows(req[r].api_key) # {}
           c == IF m THEN WindowCount(CHOOSE i \in ActiveRows(req[r].api_key) : TRUE, 1)
                ELSE 0
           v == IF /\ StartsWithApi(req[r].path)
                   /\ req[r].path # << "health" >>
                   /\ HasKey(req[r].api_key)
                THEN req[r].resolves + 1 ELSE req[r].resolves
       IN  IF d.outcome = "reject"
           THEN req' = [req EXCEPT ![r].pc = "log", ![r].matched = m,
                                   ![r].seen = c, ![r].resolves = v,
                                   ![r].stats = d.stats, ![r].status = 429,
                                   ![r].body = Some(RejectBody(d.stats[1])),
                                   ![r].headers = Some(RejectHeaders(d.stats[1]))]
           ELSE req' = [req EXCEPT ![r].pc = RateLimitCallNext,
                                   ![r].matched = m, ![r].seen = c,
                                   ![r].resolves = v,
                                   ![r].stats = d.stats]
    /\ UNCHANGED << users, api_keys, usage_logs, now, rate_limits, served, issued,
                    purchase, monitors, reinit, purchasing, sqlite_sequence >>

\* the downstream handler, and lines 95-100 of rate_limit_middleware.  The
\* handler returns a response, or its work fails or is cancelled: `await
\* call_next(request)` then raises in both middlewares, neither of which
\* has a try around it, and the lines after it are not run
Handler(r) ==
    /\ req[r].pc = "handler"
    /\ \/ req' = [req EXCEPT ![r].pc = "log", ![r].handled = TRUE,
                          ![r].status = HandlerStatus(req[r].path, req[r].api_key),
                          ![r].body = HandlerBody(HandlerStatus(req[r].path,
                                                                req[r].api_key)),
                          ![r].headers = IF req[r].stats = None THEN None
                                         ELSE Some(AdmitHeaders(req[r].stats[1]))]
       \/ req' = [req EXCEPT ![r] = Raise([req[r] EXCEPT !.handled = TRUE],
                                              "handler")]
    /\ UNCHANGED << users, api_keys, usage_logs, now, rate_limits, served, issued,
                    purchase, monitors, reinit, purchasing, sqlite_sequence >>

\* a logging step that clears the active flag of the rows matching the key
LogAfterRevoking(r) ==
    /\ req[r].pc = "log"
    /\ req' = [req EXCEPT ![r].pc = "done"]
    /\ api_keys' = [i \in DOMAIN api_keys |->
                      IF /\ HasKey(req[r].api_key)
                         /\ api_keys[i].key_hash = KeyHash(req[r].api_key)
                      THEN [api_keys[i] EXCEPT !.is_active = FALSE]
                      ELSE api_keys[i]]
    /\ UNCHANGED << users, usage_logs, now, rate_limits, served, issued, purchase,
                    monitors, reinit, purchasing, sqlite_sequence >>

\* a logging step that logs under the matching key row and repeats the
\* INSERT blindly
LogAfterRetrying(r) ==
    /\ req[r].pc = "log"
    /\ LET key_info == LogKeyInfoAnyAccount(req[r].api_key)
           row == UsageRow(key_info[1].api_key_id, req[r].path, req[r].status)
       IN
       IF key_info # None
       THEN /\ usage_logs' = Append(Append(usage_logs, row), row)
            /\ req' = [req EXCEPT ![r].pc = "done",
                                  ![r].writes = req[r].writes + 2,
                                  ![r].logged = req[r].logged + 2,
                                  ![r].record = Some(row)]
       ELSE /\ req' = [req EXCEPT ![r].pc = "done"]
            /\ UNCHANGED usage_logs
    /\ UNCHANGED << users, api_keys, now, rate_limits, served, issued, purchase,
                    monitors, reinit, purchasing, sqlite_sequence >>

\* a logging step that logs under the credential the key matched when the
\* request was admitted, without resolving the key again
LogAfterAdmitted(r) ==
    /\ req[r].pc = "log"
    /\ IF req[r].matched /\ Len(usage_logs) < MaxLogs
       THEN LET i == CHOOSE j \in DOMAIN api_keys :
                         api_keys[j].key_hash = KeyHash(req[r].api_key)
                row == UsageRow(i, req[r].path, req[r].status)
            IN  /\ usage_logs' = Append(usage_logs, row)
                /\ req' = [req EXCEPT ![r].pc = "done",
                                      ![r].writes = req[r].writes + 1,
                                      ![r].logged = req[r].logged + 1,
                                      ![r].record = Some(row)]
       ELSE /\ req' = [req EXCEPT ![r].pc = "done"]
            /\ UNCHANGED usage_logs
    /\ UNCHANGED << users, api_keys, now, rate_limits, served, issued, purchase,
                    monitors, reinit, purchasing, sqlite_sequence >>

\* log_request_middleware, lines 34-51: log the usage of a verified key.
\* log_usage is awaited once, with no try around it: it inserts the row, or
\* it raises (database locked, disk full) and the exception leaves the
\* middleware
LogAfter(r) ==
    /\ req[r].pc = "log"
    /\ LET key_info == LogKeyInfo(req[r].api_key)
           row == UsageRow(key_info[1].api_key_id, req[r].path, req[r].status)
           v == IF HasKey(req[r].api_key)
                THEN req[r].resolves + 1 ELSE req[r].resolves
       IN
       IF key_info # None
       THEN \/ /\ Len(usage_logs) < MaxLogs
               /\ usage_logs' = Append(usage_logs, row)
               /\ req' = [req EXCEPT ![r].pc = "done",
                                     ![r].resolves = v,
                                     ![r].writes = req[r].writes + 1,
                                     ![r].logged = req[r].logged + 1,
                                     ![r].record = Some(row)]
            \/ /\ req' = [req EXCEPT ![r] =
                            Raise([req[r] EXCEPT !.resolves = v,
                                                 !.writes = req[r].writes + 1],
                                  "log_usage")]
               /\ UNCHANGED usage_logs
       ELSE /\ req' = [req EXCEPT ![r].pc = "done", ![r].resolves = v]
            /\ UNCHANGED usage_logs
    /\ UNCHANGED << users, api_keys, now, rate_limits, served, issued, purchase,
                    monitors, reinit, purchasing, sqlite_sequence >>

\* the response has been sent
Finish(r) ==
    /\ req[r].pc = "done"
    /\ req' = [req EXCEPT ![r] = IdleReq]
    /\ UNCHANGED << users, api_keys, usage_logs, now, rate_limits, served, issued,
                    purchase, monitors, reinit, purchasing, sqlite_sequence >>

\* the server clock
Tick ==
    /\ now < MaxTime
    /\ now' = now + 1
    /\ UNCHANGED << users, api_keys, usage_logs, rate_limits, req, served, issued,
                    purchase, monitors, reinit, purchasing, sqlite_sequence >>

\* the request pipeline, over the seeded store as it is revoked, deactivated,
\* written to and aged
Next ==
    \/ Revoke(1)
    \/ DeactivateUser(1)
    \/ /\ Len(usage_logs) < MaxLogs
       /\ LogUsage(1, << "api", "locations" >>, 200)
    \/ Tick
    \/ \E r \in Slots, p \in Paths, k \in HeaderValues : Arrive(r, p, k)
    \/ \E r \in Slots : RateLimit(r)
    \/ \E r \in Slots : Handler(r)
    \/ \E r \in Slots : LogAfter(r)
    \/ \E r \in Slots : Finish(r)

Spec == Init /\ [][Next]_vars

\* the credential store and the usage ledger alone, called directly
NextStore ==
    \/ \E e \in Emails : Len(users) < MaxUsers /\ CreateUser(e)
    \/ \E a \in IssueInputs, k \in GeneratedKeys :
          /\ \/ Cardinality(DOMAIN api_keys) < MaxKeys
             \/ \E i \in DOMAIN api_keys : api_keys[i].key_hash = KeyHash(k)
          /\ CreateApiKeyForUser(a[1], a[2], k)
    \/ \E i \in DOMAIN api_keys : Revoke(i)
    \/ \E u \in DOMAIN users : DeactivateUser(u)
    \/ \E i \in KeyIdInputs :
          Len(usage_logs) < MaxLogs /\ LogUsage(i, << "api", "locations" >>, 200)
    \/ Tick

SpecStore == Init /\ [][NextStore]_vars

\* the request pipeline while a pro key is issued to the seeded account
NextIssued ==
    \/ /\ Cardinality(DOMAIN api_keys) < MaxKeys
       /\ CreateApiKeyForUser(1, "pro", << "a1", "x" >>)
    \/ \E r \in Slots, p \in Paths, k \in HeaderValues : Arrive(r, p, k)
    \/ \E r \in Slots : RateLimit(r)
    \/ \E r \in Slots : Handler(r)
    \/ \E r \in Slots : LogAfter(r)
    \/ \E r \in Slots : Finish(r)

SpecIssued == Init /\ [][NextIssued]_vars

\* purchases going through the provisioning flow, two at a time at most,
\* beside direct issuance, account deactivation and the logging of usage
NextPurchase ==
    \/ \E c \in PurchaseSlots, e \in Emails, n \in PurchasedProducts :
          /\ \/ Len(users) < MaxUsers
             \/ \E u \in DOMAIN users : users[u].email = e
          /\ ProcessGumroadPurchaseCreateUser(c, e, n)
    \/ \E c \in PurchaseSlots, k \in GeneratedKeys :
          /\ \/ Cardinality(DOMAIN api_keys) < MaxKeys
             \/ \E i \in DOMAIN api_keys : api_keys[i].key_hash = KeyHash(k)
             \/ purchasing[c] # None /\ purchasing[c][1].user_id = 0
          /\ ProcessGumroadPurchaseReturn(c, k)
    \/ \E k \in GeneratedKeys :
          Cardinality(DOMAIN api_keys) < MaxKeys /\ CreateApiKeyForUser(1, "pro", k)
    \/ \E u \in DOMAIN users : DeactivateUser(u)
    \/ \E i \in KeyIdInputs :
          Len(usage_logs) < MaxLogs /\ LogUsage(i, << "api", "locations" >>, 200)

SpecPurchase == Init /\ [][NextPurchase]_vars

\* one client that sends its requests with the demo key to /api/locations
\* one after the other, each after the response to the one before, while
\* usage of the credential is also recorded through log_usage directly
NextSequential ==
    \/ /\ Len(usage_logs) < MaxLogs
       /\ LogUsage(1, << "api", "locations" >>, 200)
    \/ Arrive(1, << "api", "locations" >>, DEMO_API_KEY)
    \/ RateLimit(1)
    \/ Handler(1)
    \/ LogAfter(1)
    \/ Finish(1)

SpecSequential == Init /\ [][NextSequential]_vars

\* one client that keeps sending requests with the demo key to
\* /api/locations as the clock advances, over a ledger that also receives
\* records of rejected (429) requests of the credential through log_usage
NextPersistent ==
    \/ /\ Len(usage_logs) < MaxLogs
       /\ LogUsage(1, << "api", "locations" >>, 429)
    \/ Arrive(1, << "api", "locations" >>, DEMO_API_KEY)
    \/ RateLimit(1)
    \/ Handler(1)
    \/ LogAfter(1)
    \/ Finish(1)
    \/ Tick

SpecPersistent == Init /\ [][NextPersistent]_vars

\* the monitor functions of main.py called directly, as the clock advances
NextMonitors ==
    \/ \E i \in MonitorIds, k \in MonitorKeyIds, w \in KeywordLists :
          SaveMonitor(i, k, w, MonitorLocations)
    \/ \E i \in MonitorIds, k \in MonitorKeyIds : DeleteMonitor(i, k)
    \/ Tick

SpecMonitors == Init /\ [][NextMonitors]_vars

\* init_database run again (a restart of the service) between issuance,
\* revocation, deactivation and the logging of usage
NextReinit ==
    \/ sqlite_sequence < MaxSequence /\ InitDatabase
    \/ \E k \in GeneratedKeys :
          /\ Cardinality(DOMAIN api_keys) < MaxKeys
          /\ sqlite_sequence < MaxSequence
          /\ CreateApiKeyForUser(1, "pro", k)
    \/ \E i \in DOMAIN api_keys : Revoke(i)
    \/ DeactivateUser(1)
    \/ \E i \in KeyIdInputs :
          Len(usage_logs) < MaxLogs /\ LogUsage(i, << "api", "locations" >>, 200)

SpecReinit == Init /\ [][NextReinit]_vars

\* ------------------------------------------------------------- properties

AllKeys == {DEMO_API_KEY} \cup GeneratedKeys

\* what the docstring of verify_api_key promises for a matching row
KeyInfo(i) ==
    [api_key_id |-> i, user_id |-> api_keys[i].user_id,
     plan_tier |-> api_keys[i].plan_tier]

\* the active credentials of active accounts with the fingerprint of a key
Resolvable(api_key) ==
    { i \in DOMAIN api_keys :
        /\ api_keys[i].key_hash = KeyHash(api_key)
        /\ api_keys[i].is_active
        /\ api_keys[i].user_id \in DOMAIN users
        /\ users[api_keys[i].user_id].is_active }

\* C3: resolve(token) returns the info of the credential with the token's
\* fingerprint exactly when that credential exists, is active and belongs to
\* an active account, and None otherwise.
C3_ResolveContract ==
    \A k \in AllKeys :
        IF Resolvable(k) = {}
        THEN VerifyApiKey(k) = None
        ELSE \E i \in Resolvable(k) : VerifyApiKey(k) = Some(KeyInfo(i))

\* C4: a credential resolves to its own account/plan tuple in every state in
\* which it and its account are active, and to None in every state after it
\* has been revoked; once revoked it stays revoked.
C4_StableUntilRevoked ==
    [][ \A i \in DOMAIN api_keys : \A k \in AllKeys :
          api_keys[i].key_hash = KeyHash(k) =>
            /\ (api_keys[i].is_active /\ Resolvable(k) # {})
                  => VerifyApiKey(k) = Some(KeyInfo(i))
            /\ ~api_keys[i].is_active
                  => /\ VerifyApiKey(k) = None
                     /\ ~api_keys'[i].is_active ]_vars

\* C8: for every plan tier and window count, remaining = max(0, ceiling -
\* count), it is never negative, and a request is admitted exactly when
\* remaining > 0, that is rejected exactly when count >= ceiling; the same
\* holds of the stats computed for every stored credential.
C8_QuotaDecision ==
    /\ \A t \in PlanTierInputs : \A c \in 0..(MaxLogs + 1) :
          LET s == QuotaStats(t, c, 1)
              ceiling == s.rate_limit
          IN  /\ s.remaining >= 0
              /\ s.remaining = (IF c >= ceiling THEN 0 ELSE ceiling - c)
              /\ Admitted(s) <=> s.remaining > 0
              /\ ~Admitted(s) <=> c >= ceiling
    /\ \A i \in DOMAIN api_keys :
          LET s == GetUsageStats(i, 1)
              c == Cardinality({ j \in DOMAIN usage_logs :
                                   /\ usage_logs[j].api_key_id = i
                                   /\ now - usage_logs[j].timestamp <= 1 })
          IN  /\ s.total_calls = c
              /\ s.remaining >= 0
              /\ Admitted(s) <=> c < s.rate_limit

\* C8 witness: a stored credential whose window count has reached its
\* ceiling, so that its remaining allowance is 0 and it is not admitted
C8_Witness ==
    \E i \in DOMAIN api_keys :
        /\ GetUsageStats(i, 1).total_calls >= GetUsageStats(i, 1).rate_limit
        /\ GetUsageStats(i, 1).total_calls > 0
        /\ ~Admitted(GetUsageStats(i, 1))

\* C9: the ceiling applied to a plan tier that is not in the table is the
\* configured ceiling of the free tier, and is not larger than the ceiling of
\* any known tier.
C9_UnknownTierIsFree ==
    /\ RateLimitFor("gold") = rate_limits["free"]
    /\ \A t \in Tiers : RateLimitFor("gold") <= rate_limits[t]
\* a request that has passed rate_limit_middleware's decision
Decided(r) == req[r].pc \in {"handler", "log", "done"}

\* the credential with the fingerprint of the key of request r, its tier and
\* the ceiling of that tier (the tier of a credential never changes)
CredentialOf(r) ==
    CHOOSE i \in DOMAIN api_keys : api_keys[i].key_hash = KeyHash(req[r].api_key)

CeilingOf(r) ==
    IF api_keys[CredentialOf(r)].plan_tier \in Tiers
    THEN rate_limits[api_keys[CredentialOf(r)].plan_tier]
    ELSE rate_limits["free"]

\* C1: a finished request has written exactly one Usage Record if it was
\* metered (API path, key present and resolvable) and none otherwise.
C1_OneRecordPerMetered ==
    \A r \in Slots :
        req[r].pc = "done" =>
            req[r].logged = (IF req[r].matched THEN 1 ELSE 0)

\* C2: a metered request is decided on the window count before it is
\* recorded: with count < ceiling it is passed to the handler, with
\* count >= ceiling it is answered 429 and the handler is not invoked
\* (records that have left the 24-hour window are not in the count).
C2_AdmitBelowCeiling ==
    \A r \in Slots :
        (Decided(r) /\ req[r].matched) =>
            IF req[r].seen < CeilingOf(r)
            THEN req[r].pc = "handler" \/ req[r].handled
            ELSE req[r].status = 429 /\ ~req[r].handled

\* C5: two requests on one credential that both read count = ceiling - 1
\* are both admitted and both recorded: once both are finished the ledger
\* holds two records more than the count they read.
C5_ConcurrentOverAdmission ==
    \A r1 \in Slots : \A r2 \in Slots \ {r1} :
        ( /\ req[r1].pc = "done" /\ req[r2].pc = "done"
          /\ req[r1].matched /\ req[r2].matched
          /\ req[r1].api_key = req[r2].api_key
          /\ req[r1].seen = CeilingOf(r1) - 1
          /\ req[r2].seen = CeilingOf(r2) - 1 )
        => /\ req[r1].handled /\ req[r2].handled
           /\ req[r1].logged = 1 /\ req[r2].logged = 1
           /\ Len(usage_logs) >= CeilingOf(r1) + 1

\* C6: a metered request whose remaining allowance is 0 is answered by the
\* middleware itself: the handler is not invoked, the status is 429, the body
\* reports error label, plan tier, ceiling, the count read and the 24-hour
\* hint, and the headers report the ceiling, remaining 0 and reset 86400.
C6_RejectionResponse ==
    \A r \in Slots :
        (Decided(r) /\ req[r].matched /\ req[r].seen >= CeilingOf(r)) =>
            /\ req[r].pc # "handler"
            /\ ~req[r].handled
            /\ req[r].status = 429
            /\ req[r].body = Some([error |-> "Rate limit exceeded",
                                   plan |-> api_keys[CredentialOf(r)].plan_tier,
                                   limit |-> CeilingOf(r),
                                   used |-> req[r].seen,
                                   resets_in |-> "24 hours"])
            /\ req[r].headers = Some([limit |-> CeilingOf(r),
                                      remaining |-> 0, reset |-> 86400])

\* C7: the response of an admitted metered request carries the ceiling and
\* the allowance left after this call, max(0, remaining - 1), where remaining
\* is ceiling - count read before the call.
C7_RemainingAfterCall ==
    \A r \in Slots :
        ( /\ req[r].pc \in {"log", "done"} /\ req[r].matched
          /\ req[r].seen < CeilingOf(r) ) =>
            /\ req[r].handled
            /\ req[r].headers # None
            /\ req[r].headers[1].limit = CeilingOf(r)
            /\ req[r].headers[1].remaining
                  = Max(0, (CeilingOf(r) - req[r].seen) - 1)

\* C10: a request on an API path that carries no key, or a key that did not
\* resolve when the middleware looked it up, is passed to the handler
\* unmetered: no quota evaluation, no 429 from the middleware, no record.
C10_UnresolvedUnmetered ==
    \A r \in Slots :
        (Decided(r) /\ StartsWithApi(req[r].path) /\ ~req[r].matched) =>
            /\ req[r].stats = None
            /\ req[r].body \in {None, Some(UnauthorizedBody)}
            /\ req[r].status # 429
            /\ req[r].logged = 0
            /\ req[r].pc \in {"log", "done"} => req[r].handled

\* C10 witness: finished requests on an API path, one without a key and one
\* with the key of a revoked credential, both handled downstream
C10_Witness ==
    \E r1 \in Slots, r2 \in Slots :
        /\ req[r1].pc = "done" /\ req[r2].pc = "done"
        /\ StartsWithApi(req[r1].path) /\ StartsWithApi(req[r2].path)
        /\ ~HasKey(req[r1].api_key) /\ req[r1].handled
        /\ HasKey(req[r2].api_key) /\ ~req[r2].matched /\ req[r2].handled
        /\ \E i \in DOMAIN api_keys :
              /\ api_keys[i].key_hash = KeyHash(req[r2].api_key)
              /\ ~api_keys[i].is_active

\* a path rate_limit_middleware does not meter: the health check and every
\* other path outside /api/
Exempt(path) == ~StartsWithApi(path) \/ path = << "health" >>

\* C11: a request on an exempt path is passed to the handler unmetered and
\* ends without a quota evaluation, a 429 or a Usage Record, also when its
\* key is that of an active credential of an active account.
C11_ExemptUnmetered ==
    \A r \in Slots :
        (Decided(r) /\ Exempt(req[r].path)) =>
            /\ req[r].stats = None
            /\ req[r].status # 429
            /\ req[r].writes = 0 /\ req[r].logged = 0 /\ req[r].record = None
            /\ req[r].pc \in {"log", "done"} => req[r].handled

\* C11 witness: a request on /health with the key of the active demo
\* credential has been handled and has ended, the ledger still empty
C11_Witness ==
    \E r \in Slots :
        /\ req[r].pc = "done" /\ req[r].path = << "health" >>
        /\ req[r].api_key = DEMO_API_KEY /\ Resolvable(DEMO_API_KEY) # {}
        /\ req[r].handled /\ req[r].raised = ""
        /\ usage_logs = << >>

\* C12: on a key-protected endpoint the handler answers 401 when the request
\* carries no key or a key that did not resolve, and does not answer 401 when
\* the key resolved to an active credential of an active account.
C12_FailClosed ==
    \A r \in Slots :
        ( /\ req[r].pc \in {"log", "done"} /\ StartsWithApi(req[r].path)
          /\ req[r].handled /\ req[r].raised = "" ) =>
            IF req[r].matched THEN req[r].status # 401 ELSE req[r].status = 401

\* the handler of request r failed or was cancelled
HandlerFailed(r) == req[r].raised = "handler"

\* a call of log_usage made for request r has inserted no row: the write
\* failed
WriteFailed(r) == req[r].writes > req[r].logged

\* C13: when the ledger write of a metered request has failed, no exception
\* has left the middleware and the client has the response computed before
\* the write: the handler's, or the 429 of the middleware.
C13_WriteFailureSwallowed ==
    \A r \in Slots :
        (req[r].matched /\ WriteFailed(r)) =>
            /\ req[r].raised = ""
            /\ req[r].status = (IF req[r].handled
                                THEN HandlerStatus(req[r].path, req[r].api_key)
                                ELSE 429)

\* C13, its case: no request gets as far as a ledger write, failed or not
C13_NoWriteAttempted ==
    \A r \in Slots : req[r].writes = 0

\* C14: one request calls log_usage at most once; every step that adds to
\* the ledger adds exactly one record, for a request that had made no call
\* before, under the credential of its key: the records of a credential are
\* never more than the metered requests made with it.
C14_NeverOvercounts ==
    [][ /\ \A r \in Slots : req[r].writes <= 1 /\ req'[r].writes <= 1
        /\ Len(usage_logs') > Len(usage_logs) =>
              /\ Len(usage_logs') = Len(usage_logs) + 1
              /\ \E r \in Slots :
                    /\ req[r].pc = "log" /\ req'[r].pc = "done"
                    /\ req[r].writes = 0 /\ req'[r].writes = 1
                    /\ usage_logs'[Len(usage_logs')].api_key_id = CredentialOf(r)
      ]_vars

\* C14 witness: two requests made with the key of one active credential have
\* both ended, and the ledger holds no more records of it than that
C14_Witness ==
    \E r1 \in Slots : \E r2 \in Slots \ {r1} :
        /\ req[r1].pc = "done" /\ req[r2].pc = "done"
        /\ req[r1].matched /\ req[r2].matched
        /\ req[r1].api_key = req[r2].api_key
        /\ req[r1].handled /\ req[r2].handled
        /\ WindowCount(CredentialOf(r1), MaxTime) <= 2

\* C15: when the handler of an admitted metered request fails or is
\* cancelled, the middleware has still called log_usage for the request once
\* the failure has reached the caller.
C15_LoggedOnHandlerFailure ==
    \A r \in Slots :
        (req[r].pc = "done" /\ req[r].matched /\ HandlerFailed(r)) =>
            req[r].writes = 1

\* C16: no record is written for a request before its outcome is known, and
\* the record of a finished metered request carries the id of the credential
\* of its key, its path and the status sent to the client: 429 if it was
\* rejected, the handler's status if it was admitted.
C16_RecordContent ==
    \A r \in Slots :
        /\ req[r].pc \in {"rate_limit", "handler"} => req[r].record = None
        /\ (req[r].pc = "done" /\ req[r].matched /\ req[r].raised = "") =>
              /\ req[r].record # None
              /\ req[r].record[1].api_key_id = CredentialOf(r)
              /\ req[r].record[1].endpoint = req[r].path
              /\ req[r].record[1].status_code = req[r].status
              /\ req[r].status = (IF req[r].handled
                                  THEN HandlerStatus(req[r].path, req[r].api_key)
                                  ELSE 429)

\* the credentials create_api_key_for_user has issued: all but the seeded one
Issued == DOMAIN api_keys \ {1}

\* the finished metered requests made with the key of request r
DoneWith(r) ==
    { q \in Slots : /\ req[q].pc = "done" /\ req[q].matched
                    /\ req[q].raised = "" /\ req[q].api_key = req[r].api_key }

\* C17: the window count of a credential is the number of its records no
\* older than the window, whatever else the ledger holds; when the k requests
\* served so far were all metered requests with one issued pro key and have
\* ended, the count of its credential is k and remaining is its ceiling
\* minus k (1 and 4999 after the first request, under the default ceilings).
C17_CountWindow ==
    /\ \A i \in DOMAIN api_keys :
          GetUsageStats(i, 1).total_calls =
              Cardinality({ j \in DOMAIN usage_logs :
                              /\ usage_logs[j].api_key_id = i
                              /\ now - usage_logs[j].timestamp <= 1 })
    /\ \A r \in Slots :
          ( /\ r \in DoneWith(r) /\ served = Cardinality(DoneWith(r))
            /\ CredentialOf(r) \in Issued
            /\ api_keys[CredentialOf(r)].plan_tier = "pro" ) =>
              LET s == GetUsageStats(CredentialOf(r), 1)
              IN  /\ s.total_calls = served
                  /\ s.remaining = CeilingOf(r) - served

\* C18: two credentials issued to one account have different fingerprints,
\* and each of them, while it and the account are active, resolves from its
\* own key to its own id, account and plan tier.
C18_IssueTwice ==
    \A i \in Issued : \A j \in Issued \ {i} :
        api_keys[i].user_id = api_keys[j].user_id =>
            /\ api_keys[i].key_hash # api_keys[j].key_hash
            /\ \A k \in GeneratedKeys :
                  (api_keys[i].key_hash = KeyHash(k) /\ Resolvable(k) # {})
                      => VerifyApiKey(k) = Some(KeyInfo(i))

\* C19: no two credentials of the store, active or not, the seeded one
\* included, have the same fingerprint.
C19_FingerprintUnique ==
    \A i \in DOMAIN api_keys : \A j \in DOMAIN api_keys \ {i} :
        api_keys[i].key_hash # api_keys[j].key_hash

\* C19 witness: the store holds the seeded credential and two issued ones,
\* one of the three inactive, and the last issuance drew a stored fingerprint
C19_Witness ==
    /\ Cardinality(DOMAIN api_keys) = 3
    /\ \E i \in DOMAIN api_keys : ~api_keys[i].is_active
    /\ issued.raised

\* C20: issuance ends in an error only after it has regenerated the token
\* and retried: a call that raised has made more than one attempt.
C20_CollisionRetried ==
    issued.raised => issued.attempts > 1

\* C21: a step of revoke(i) leaves credential i inactive, changes no other
\* credential and no Usage Record, and changes nothing at all when i was
\* inactive already.
C21_RevokeIdempotent ==
    [][ \A i \in DOMAIN api_keys :
          Revoke(i) =>
            /\ ~api_keys'[i].is_active
            /\ api_keys' = [api_keys EXCEPT ![i].is_active = FALSE]
            /\ \A j \in DOMAIN api_keys \ {i} : api_keys'[j] = api_keys[j]
            /\ usage_logs' = usage_logs
            /\ ~api_keys[i].is_active => api_keys' = api_keys ]_vars

\* C21 witness: a revoked credential beside an active one and a ledger with
\* records of both
C21_Witness ==
    \E i \in DOMAIN api_keys : \E j \in DOMAIN api_keys :
        /\ ~api_keys[i].is_active /\ api_keys[j].is_active
        /\ \E a \in DOMAIN usage_logs : usage_logs[a].api_key_id = i
        /\ \E b \in DOMAIN usage_logs : usage_logs[b].api_key_id = j

\* C22: the key of a request is looked up in the credential store at most
\* once, and exactly once by the time a request that carries a key has ended.
C22_ResolvedOnce ==
    \A r \in Slots :
        /\ req[r].resolves <= 1
        /\ (req[r].pc = "done" /\ HasKey(req[r].api_key) /\ req[r].raised = "")
              => req[r].resolves = 1

\* C23: no request is both passed to the handler and answered 429 by the
\* middleware, none has a record before its admission decision, and a
\* metered request that has ended has been evaluated against its quota and
\* logged once.
C23_StateOrder ==
    \A r \in Slots :
        /\ ~(req[r].handled /\ req[r].status = 429)
        /\ req[r].writes > 0 => req[r].pc = "done"
        /\ (req[r].pc = "done" /\ req[r].matched /\ req[r].raised = "") =>
              /\ req[r].stats # None
              /\ req[r].handled \/ req[r].status = 429
              /\ req[r].writes = 1

\* C24: every step keeps every Usage Record written so far, unchanged and in
\* its place: the ledger only grows at its end.
C24_AppendOnly ==
    [][ /\ Len(usage_logs') >= Len(usage_logs)
        /\ \A i \in DOMAIN usage_logs : usage_logs'[i] = usage_logs[i] ]_vars

\* C24 witness: the ledger holds records written on different days, after
\* which a request has been processed and the credential revoked
C24_Witness ==
    /\ Len(usage_logs) = 2
    /\ usage_logs[1].timestamp < usage_logs[2].timestamp
    /\ now > usage_logs[2].timestamp
    /\ ~api_keys[1].is_active
    /\ \E r \in Slots : req[r].pc = "done" /\ req[r].api_key = DEMO_API_KEY

\* C25: a step of request processing leaves users and credentials as they
\* are; no step removes a credential or changes anything of it but its
\* active flag; the credential of every Usage Record is in the store.
C25_StoreReadOnly ==
    [][ /\ req' # req => (api_keys' = api_keys /\ users' = users)
        /\ DOMAIN api_keys \subseteq DOMAIN api_keys'
        /\ \A i \in DOMAIN api_keys :
              api_keys'[i] = [api_keys[i] EXCEPT
                                !.is_active = api_keys'[i].is_active]
        /\ \A j \in DOMAIN usage_logs' :
              usage_logs'[j].api_key_id \in DOMAIN api_keys' ]_vars

\* C25 witness: a request with the key of the stored credential has been
\* through the lookup, the handler and the logging step, the credential
\* still stored and active, with a record in the ledger
C25_Witness ==
    \E r \in Slots :
        /\ req[r].pc = "done" /\ req[r].matched /\ req[r].handled
        /\ req[r].resolves > 0
        /\ api_keys[CredentialOf(r)].is_active
        /\ \E j \in DOMAIN usage_logs :
              usage_logs[j].api_key_id = CredentialOf(r)

\* C26: the plan tier of every stored credential is one of free, starter,
\* pro and enterprise, and so is the tier the purchase flow maps any product
\* name to.
C26_TierEnumeration ==
    /\ \A i \in DOMAIN api_keys : api_keys[i].plan_tier \in Tiers
    /\ \A n \in ProductNames : MapProductToPlanTier(n) \in Tiers

\* C27: no stored field of a credential is a full key or the secret part of
\* one, and neither the key listing, the lookup, the usage stats nor a Usage
\* Record gives one back.
C27_SecretNotStored ==
    /\ \A i \in DOMAIN api_keys :
          LET stats == GetUsageStats(i, 1)
          IN  /\ DOMAIN stats =
                    {"total_calls", "plan_tier", "rate_limit", "remaining",
                     "period_days"}
              /\ \A k \in AllKeys :
                    /\ api_keys[i].key_hash # k
                    /\ api_keys[i].key_prefix # k[2]
                    /\ api_keys[i].plan_tier # k[2]
                    /\ stats.plan_tier # k[2]
    /\ \A u \in 1..MaxUsers :
          \A listing \in ListApiKeysForUser(u) :
              \A p \in DOMAIN listing :
                  /\ DOMAIN listing[p] =
                        {"id", "key_prefix", "plan_tier", "created_at",
                         "is_active"}
                  /\ \A k \in AllKeys :
                        /\ listing[p].key_prefix # k[2]
                        /\ listing[p].plan_tier # k[2]
    /\ \A k \in AllKeys :
          /\ VerifyApiKey(k) # Some(k)
          /\ \A j \in DOMAIN usage_logs : usage_logs[j].endpoint # k

\* C27 witness: two keys have been issued to one account, the second just
\* returned to the caller, and the account's listing shows both credentials
C27_Witness ==
    /\ issued.full_key # None
    /\ \E u \in DOMAIN users :
          \E listing \in ListApiKeysForUser(u) : Len(listing) = 3
    /\ \E i \in DOMAIN api_keys : api_keys[i].key_hash = KeyHash(issued.full_key[1])

\* C28: the body of every 401 and every 429 sent has an `error` field and a
\* `details` object, and a request that ended in an exception has a 500
\* with no body of the application.
C28_StructuredErrors ==
    /\ \A r \in Slots :
          (req[r].pc \in {"log", "done"} /\ req[r].status \in {401, 429}) =>
              /\ req[r].body # None
              /\ {"error", "details"} \subseteq DOMAIN req[r].body[1]
    /\ \A r \in Slots :
          req[r].raised # "" => (req[r].status = 500 /\ req[r].body = None)

\* C29: every call of process_gumroad_purchase ends with a result, not an
\* exception: for an email that was stored, success = False and no change
\* of accounts and credentials; for a new one, one account is created, and
\* the call ends in success with the key of the one credential it creates,
\* of that account, with the tier mapped from the product.
C29_PurchaseResult ==
    [][ \A c \in PurchaseSlots :
          /\ (purchasing[c] = None /\ purchasing'[c] # None) =>
                /\ api_keys' = api_keys
                /\ IF purchasing'[c][1].user_id = 0
                   THEN users' = users
                   ELSE /\ users' = Append(users,
                                [email |-> purchasing'[c][1].email,
                                 is_active |-> TRUE])
                        /\ purchasing'[c][1].user_id = Len(users')
          /\ (purchasing[c] # None /\ purchasing'[c] = None) =>
                /\ ~purchase'.raised
                /\ users' = users
                /\ IF purchasing[c][1].user_id = 0
                   THEN /\ ~purchase'.success
                        /\ api_keys' = api_keys
                   ELSE /\ purchase'.success
                        /\ purchase'.api_key # None
                        /\ api_keys' = InsertApiKey(
                              [user_id |-> purchasing[c][1].user_id,
                               key_hash |-> KeyHash(purchase'.api_key[1]),
                               key_prefix |-> purchase'.api_key[1][1],
                               plan_tier |->
                                 MapProductToPlanTier(purchasing[c][1].product_name),
                               created_at |-> now, is_active |-> TRUE]) ]_vars

\* the requests served so far that rate_limit_middleware has passed to the
\* handler: all but those still before its decision and those it answered
\* 429 (in flight, or in the ledger with that status)
PassedToHandler ==
    served
    - Cardinality({ r \in Slots : req[r].pc = "rate_limit" })
    - Cardinality({ r \in Slots : req[r].pc = "log" /\ ~req[r].handled })
    - Cardinality({ j \in DOMAIN usage_logs : usage_logs[j].status_code = 429 })

\* C30: with never more than N = 1 request of the credential in flight, the
\* requests admitted on it inside one 24-hour window are at most
\* ceiling + N - 1, that is the ceiling of its tier.
C30_BoundedOverAdmission ==
    PassedToHandler <= rate_limits[api_keys[1].plan_tier]

\* the records of a credential inside the 24-hour window that report a 429
RejectedInWindow(i) ==
    { j \in DOMAIN usage_logs :
        /\ usage_logs[j].api_key_id = i
        /\ usage_logs[j].status_code = 429
        /\ usage_logs[j].timestamp >= now - 1 }

\* C31: the records of rejected requests count in the window like any
\* other: the count of a credential is at least the number of its 429
\* records in the window, and a metered request decided while the window
\* holds the ceiling or more records of whatever outcome is rejected, its
\* 429 reports the count read, and once it has ended it has added one
\* record with status 429 to the ledger.
C31_RejectedCounted ==
    /\ \A i \in DOMAIN api_keys :
          GetUsageStats(i, 1).total_calls >= Cardinality(RejectedInWindow(i))
    /\ \A r \in Slots :
          (Decided(r) /\ req[r].matched /\ req[r].seen >= CeilingOf(r)) =>
              /\ req[r].status = 429
              /\ req[r].body # None
              /\ req[r].body[1].used = req[r].seen
              /\ req[r].pc = "done" =>
                    /\ req[r].logged = 1
                    /\ req[r].record # None
                    /\ req[r].record[1].status_code = 429

\* C32: the logging step of a request that was admitted with a key matching
\* an active credential of an active account, and whose credential has been
\* revoked or whose account has been deactivated since, writes no Usage
\* Record: the served request stays out of the ledger.
C32_RevokedBeforeLogging ==
    [][ \A r \in Slots :
          ( /\ req[r].pc = "log" /\ req'[r].pc = "done"
            /\ req[r].matched /\ req[r].handled
            /\ Resolvable(req[r].api_key) = {} ) =>
              /\ usage_logs' = usage_logs
              /\ req'[r].logged = 0
              /\ req'[r].record = None ]_vars

\* C32 witness: a request admitted on a then active credential has been
\* served by the handler and has ended with no record, the credential being
\* revoked or its account deactivated
C32_Witness ==
    \E r \in Slots :
        /\ req[r].pc = "done" /\ req[r].matched /\ req[r].handled
        /\ req[r].raised = "" /\ req[r].status = 200
        /\ Resolvable(req[r].api_key) = {}
        /\ req[r].logged = 0 /\ req[r].record = None

\* C33: every stored credential belongs to a stored account and every Usage
\* Record to a stored credential; an issuance for an account id that is not
\* stored creates no credential.
C33_ReferentialIntegrity ==
    /\ \A i \in DOMAIN api_keys : api_keys[i].user_id \in DOMAIN users
    /\ \A j \in DOMAIN usage_logs : usage_logs[j].api_key_id \in DOMAIN api_keys

\* the monitors owned by another key than api_key_id are after the step
\* what they were before it
OthersUntouched(api_key_id) ==
    \A i \in DOMAIN monitors :
        monitors[i].api_key_id # api_key_id =>
            i \in DOMAIN monitors' /\ monitors'[i] = monitors[i]

\* C34: get_monitors_for_api_key(k) gives only active monitors owned by k;
\* delete_monitor(id, k) deactivates the monitor only when k owns it; and no
\* save_monitor or delete_monitor call made with k changes a monitor owned
\* by a different key.
C34_MonitorIsolation ==
    [][ /\ \A k \in MonitorKeyIds :
              \A m \in GetMonitorsForApiKey(k) : m.api_key_id = k /\ m.is_active
        /\ \A i \in MonitorIds, k \in MonitorKeyIds :
              DeleteMonitor(i, k) =>
                  /\ OthersUntouched(k)
                  /\ \A j \in DOMAIN monitors :
                        monitors'[j] # monitors[j] =>
                            j = i /\ monitors[j].api_key_id = k
        /\ \A i \in MonitorIds, k \in MonitorKeyIds, w \in KeywordLists :
              SaveMonitor(i, k, w, MonitorLocations) => OthersUntouched(k)
      ]_vars

\* C35: a run of init_database on the initialized store leaves accounts,
\* credentials and Usage Records as they are: one demo account and one demo
\* credential, with the active flags and the tier they had.
C35_InitIdempotent ==
    [][ InitDatabase =>
          /\ users' = users /\ api_keys' = api_keys /\ usage_logs' = usage_logs
          /\ Cardinality({ u \in DOMAIN users' :
                             users'[u].email = "demo@example.com" }) = 1
          /\ Cardinality({ i \in DOMAIN api_keys' :
                             api_keys'[i].key_hash = KeyHash(DEMO_API_KEY) }) = 1
      ]_vars

\* C35 witness: init_database has been run again on a store whose demo
\* credential is revoked and whose demo account is deactivated, beside a
\* credential issued after a re-run (the id before its own was never given
\* to a row) and a ledger with a record
C35_Witness ==
    /\ reinit
    /\ ~api_keys[1].is_active /\ ~users[1].is_active
    /\ \E i \in DOMAIN api_keys : i > 2 /\ i - 1 \notin DOMAIN api_keys
    /\ Len(usage_logs) > 0
====
